---- MODULE Spec2Model ----
(***************************************************************************)
(* Model of src/util.rs of the static-site generator: the text transforms  *)
(* to_id / slugify, the document scanner (collect_links, collect_imgs,     *)
(* collect_fragments) and the tree indexer parse_html_files.               *)
(*                                                                         *)
(* Strings that are transformed character by character (to_id, slugify)    *)
(* are sequences of Unicode code points.  Attribute values and messages    *)
(* are TLA+ strings.                                                       *)
(***************************************************************************)
EXTENDS Integers, Sequences, FiniteSets, TLC

VARIABLES
    input,      \* the &str handed to to_id / slugify
    output,     \* the String returned by the last call
    called,     \* which of the two was called last ("none" before any call)
    document,   \* the Html handed to the collect_* functions: its elements
    order,      \* the order in which select() visits the document's elements
    scanned,    \* which collect_* function was called last ("none" before any)
    scan,       \* the Result that call returned
    fs,         \* the directory tree: what each path names
    written,    \* outcome of the last call that writes to the tree
    result      \* outcome of parse_html_files(output_dir)

vars == <<input, output, called, document, order, scanned, scan, fs, written, result>>

slugVars  == <<input, output, called>>
scanVars  == <<document, order, scanned, scan>>
indexVars == <<fs, written, result>>

\* ------------------------------------------------------------------------
\* Bounds
\* ------------------------------------------------------------------------
MaxLen == 4

MaxElems == 3

MaxFiles == 3

\* ------------------------------------------------------------------------
\* Result<T, E>
\* ------------------------------------------------------------------------
Ok(v) == [tag |-> "Ok", val |-> v]

Err(e) == [tag |-> "Err", err |-> e]

NotRun == [tag |-> "NotRun"]

\* The parts of the state a specification does not exercise stay as constructed.
ScanIdle == /\ document = <<>>
            /\ order = <<>>
            /\ scanned = "none"
            /\ scan = NotRun

IndexIdle == /\ fs = <<>>
             /\ written = NotRun
             /\ result = NotRun

SlugIdle == /\ input = <<>>
            /\ output = <<>>
            /\ called = "none"

\* ------------------------------------------------------------------------
\* to_id / slugify
\* ------------------------------------------------------------------------
\* A character is its Unicode code point.
\* \s of the regex crate and char::is_whitespace: the White_Space property
Whitespace ==
    {9, 10, 11, 12, 13, 32, 133, 160, 5760} \cup (8192..8202)
        \cup {8232, 8233, 8239, 8287, 12288}

\* a-zA-Z0-9
WordChars == (97..122) \cup (65..90) \cup (48..57)

\* '_'
Underscore == 95

\* '-'
Dash == 45

\* A character class [...] or [^...]
Class(chars) == [negated |-> FALSE, chars |-> chars]

NotClass(chars) == [negated |-> TRUE, chars |-> chars]

InClass(c, class) == (c \in class.chars) # class.negated

\* The characters the checked inputs are built from: a blank, a line break,
\* the two separators, 'a', 'B' and the symbol '?'.
InputChars == {32, 10, Dash, Underscore, 97, 66, 63}

\* Regex::new(r"\s+|_+"): the alternatives, in order, each a run of one class
UND_RE == <<Class(Whitespace), Class({Underscore})>>

\* Regex::new(r"\s+|-+")
DASH_RE == <<Class(Whitespace), Class({Dash})>>

\* Regex::new(r"[^\sa-zA-Z0-9_-]+")
SYM_RE == <<NotClass(Whitespace \cup WordChars \cup {Underscore, Dash})>>

Strings(n) == UNION {[1..k -> InputChars] : k \in 0..n}

\* Index of the first alternative of re that matches at character c, 0 if none
FirstAlt(re, c) ==
    IF \E k \in 1..Len(re) : InClass(c, re[k])
    THEN CHOOSE k \in 1..Len(re) :
             InClass(c, re[k]) /\ \A j \in 1..(k-1) : ~InClass(c, re[j])
    ELSE 0

\* Length of the longest prefix of s made of characters of class
RECURSIVE RunLen(_, _)
RunLen(s, class) ==
    IF s # <<>> /\ InClass(Head(s), class) THEN 1 + RunLen(Tail(s), class) ELSE 0

\* Regex::replace_all: every leftmost, greedy match is replaced by rep
RECURSIVE replace_all(_, _, _)
replace_all(re, s, rep) ==
    IF s = <<>> THEN <<>>
    ELSE LET k == FirstAlt(re, Head(s)) IN
         IF k = 0
         THEN <<Head(s)>> \o replace_all(re, Tail(s), rep)
         ELSE LET n == RunLen(s, re[k]) IN
              rep \o replace_all(re, SubSeq(s, n + 1, Len(s)), rep)

\* str::trim_start_matches(c)
RECURSIVE trim_start_matches(_, _)
trim_start_matches(s, c) ==
    IF s # <<>> /\ Head(s) = c THEN trim_start_matches(Tail(s), c) ELSE s

\* str::trim_end_matches(c)
RECURSIVE trim_end_matches(_, _)
trim_end_matches(s, c) ==
    IF s # <<>> /\ s[Len(s)] = c
    THEN trim_end_matches(SubSeq(s, 1, Len(s) - 1), c)
    ELSE s

\* str::trim(): leading and trailing whitespace removed
RECURSIVE trim(_)
trim(s) ==
    IF s # <<>> /\ Head(s) \in Whitespace THEN trim(Tail(s))
    ELSE IF s # <<>> /\ s[Len(s)] \in Whitespace THEN trim(SubSeq(s, 1, Len(s) - 1))
    ELSE s

LowerChar(c) == IF c \in 65..90 THEN c + 32 ELSE c

\* str::to_lowercase(), on the strings that reach it: after SYM_RE only
\* ASCII letters, digits, '_' and '-' are left
to_lowercase(s) == [i \in 1..Len(s) |-> LowerChar(s[i])]

to_id(s) ==
    LET s1 == trim(s)
        s2 == replace_all(SYM_RE, s1, <<>>)
        s3 == replace_all(DASH_RE, s2, <<Dash>>)
        s4 == trim_start_matches(s3, Underscore)
        s5 == trim_start_matches(s4, Dash)
        s6 == trim_end_matches(s5, Underscore)
        s7 == trim_end_matches(s6, Dash)
    IN  to_lowercase(s7)

slugify(s) ==
    LET s1 == trim(s)
        s2 == replace_all(SYM_RE, s1, <<>>)
        s3 == replace_all(UND_RE, s2, <<Underscore>>)
        s4 == trim_start_matches(s3, Underscore)
        s5 == trim_start_matches(s4, Dash)
        s6 == trim_end_matches(s5, Underscore)
        s7 == trim_end_matches(s6, Dash)
    IN  to_lowercase(s7)

\* ------------------------------------------------------------------------
\* HTML documents
\* ------------------------------------------------------------------------
\* An element node: its tag name and its attributes (name -> value).
Element(name, attrs) == [name |-> name, attrs |-> attrs]

Some(v) == [some |-> TRUE, val |-> v]

None == [some |-> FALSE]

\* Element::attr(name) -> Option<&str>
attr(e, k) == IF k \in DOMAIN e.attrs THEN Some(e.attrs[k]) ELSE None

AttrDebug(e, k) ==
    IF k \in DOMAIN e.attrs THEN " " \o k \o "=\"" \o e.attrs[k] \o "\"" ELSE ""

\* format!("{:#?}", element.value()): the start tag with its attributes
DebugElement(e) ==
    "<" \o e.name \o AttrDebug(e, "href") \o AttrDebug(e, "id") \o AttrDebug(e, "src") \o ">"

\* Selector::parse("name[attr]") / Selector::parse("[attr]")
Selector(name, attribute) == [name |-> name, attr |-> attribute]

AnyName == "*"

Matches(selector, e) ==
    /\ selector.name \in {AnyName, e.name}
    /\ selector.attr \in DOMAIN e.attrs

Identity(n) == [i \in 1..n |-> i]

Perms(n) == {p \in [1..n -> 1..n] : \A i, j \in 1..n : p[i] = p[j] => i = j}

\* Html::select(&selector): the matching elements, in the order visited.
\* visit is a permutation of the document's positions; scraper visits in
\* document order, Identity(Len(document)).
select(doc, selector, visit) ==
    LET visited == [i \in 1..Len(doc) |-> doc[visit[i]]]
        Match(e) == Matches(selector, e)
    IN  SelectSeq(visited, Match)

\* ------------------------------------------------------------------------
\* crate::site_url (HrefUrl::parse, ImgUrl::parse): not part of the source
\* at hand, modelled from the URL Classifier contract.
\* ------------------------------------------------------------------------
Malformed == {"ht!tp://bad"}

External == {"https://example.com/x"}

NormalizedPath(raw) ==
    CASE raw = "./b.html" -> {"b.html"}
      [] raw = "./x.png"  -> {"x.png"}
      [] raw = "b.html#intro" -> {"b.html"}
      [] raw = "#intro"   -> {}
      [] OTHER            -> {raw}

Fragment(raw) ==
    IF raw \in {"#intro", "b.html#intro"} THEN {"intro"} ELSE {}

Classify(raw, kind) ==
    IF raw \in Malformed
    THEN Err([error |-> "MalformedUrl", raw |-> raw, reason |-> "invalid scheme"])
    ELSE IF raw \in External
    THEN Ok([kind |-> kind, is_external |-> TRUE, url |-> {raw}, path |-> {}, fragment |-> {}])
    ELSE Ok([kind |-> kind, is_external |-> FALSE, url |-> {},
             path |-> NormalizedPath(raw), fragment |-> Fragment(raw)])

HrefUrlParse(raw) == Classify(raw, "href")

ImgUrlParse(raw) == Classify(raw, "src")

\* ------------------------------------------------------------------------
\* collect_links / collect_imgs / collect_fragments
\* ------------------------------------------------------------------------
\* variant: every element with an href is selected
HrefSelectorAnyTag == Selector(AnyName, "href")

HrefSelector == Selector("a", "href")

\* variant: every element with a src is selected
ImgSelectorAnyTag == Selector(AnyName, "src")

ImgSelector == Selector("img", "src")

IdSelector == Selector(AnyName, "id")

LinkError(e, err) ==
    [context |-> "Error in parsing href in element", element |-> DebugElement(e), cause |-> err]

ImgError(e, err) ==
    [context |-> "Error in parsing src in img", element |-> DebugElement(e), cause |-> err]

\* variant: an href that fails to classify is passed over
RECURSIVE LinksLoopSkipMalformed(_, _)
LinksLoopSkipMalformed(elements, hrefs) ==
    IF elements = <<>> THEN Ok(hrefs)
    ELSE LET element == Head(elements)
             href == attr(element, "href")
             parsed == HrefUrlParse(href.val)
         IN  IF href.some /\ parsed.tag = "Ok"
             THEN LinksLoopSkipMalformed(Tail(elements), hrefs \cup {parsed.val})
             ELSE LinksLoopSkipMalformed(Tail(elements), hrefs)

\* the for loop of collect_links over the selected elements, hrefs so far
RECURSIVE LinksLoop(_, _)
LinksLoop(elements, hrefs) ==
    IF elements = <<>> THEN Ok(hrefs)
    ELSE LET element == Head(elements)
             href == attr(element, "href")
         IN  IF href.some
             THEN LET parsed == HrefUrlParse(href.val) IN
                  IF parsed.tag = "Err"
                  THEN Err(LinkError(element, parsed.err))
                  ELSE LinksLoop(Tail(elements), hrefs \cup {parsed.val})
             ELSE LinksLoop(Tail(elements), hrefs)

collect_links(doc, visit) == LinksLoop(select(doc, HrefSelector, visit), {})

\* the for loop of collect_imgs
RECURSIVE ImgsLoop(_, _)
ImgsLoop(elements, images) ==
    IF elements = <<>> THEN Ok(images)
    ELSE LET element == Head(elements)
             src == attr(element, "src")
         IN  IF src.some
             THEN LET parsed == ImgUrlParse(src.val) IN
                  IF parsed.tag = "Err"
                  THEN Err(ImgError(element, parsed.err))
                  ELSE ImgsLoop(Tail(elements), images \cup {parsed.val})
             ELSE ImgsLoop(Tail(elements), images)

collect_imgs(doc, visit) == ImgsLoop(select(doc, ImgSelector, visit), {})

\* variant: an id seen before is an error
RECURSIVE FragmentsLoopUnique(_, _)
FragmentsLoopUnique(elements, frags) ==
    IF elements = <<>> THEN Ok(frags)
    ELSE LET element == Head(elements)
             id == attr(element, "id")
         IN  IF id.some
             THEN IF ("#" \o id.val) \in frags
                  THEN Err([context |-> "Duplicate id", element |-> DebugElement(element)])
                  ELSE FragmentsLoopUnique(Tail(elements), frags \cup {"#" \o id.val})
             ELSE FragmentsLoopUnique(Tail(elements), frags)

\* the for loop of collect_fragments
RECURSIVE FragmentsLoop(_, _)
FragmentsLoop(elements, frags) ==
    IF elements = <<>> THEN Ok(frags)
    ELSE LET element == Head(elements)
             id == attr(element, "id")
         IN  IF id.some
             THEN FragmentsLoop(Tail(elements), frags \cup {"#" \o id.val})
             ELSE FragmentsLoop(Tail(elements), frags)

\* variant: only the first selected element is looked at
collect_fragments_first(doc, visit) ==
    LET selected == select(doc, IdSelector, visit)
    IN  FragmentsLoop(IF selected = <<>> THEN selected ELSE <<Head(selected)>>, {})

collect_fragments(doc, visit) == FragmentsLoop(select(doc, IdSelector, visit), {})

\* ------------------------------------------------------------------------
\* Specification of the document scanner
\* ------------------------------------------------------------------------
\* The elements documents are built from.
Elements ==
    { Element("a",      [href |-> "b.html"]),
      Element("a",      [href |-> "./b.html", id |-> "intro"]),
      Element("a",      [href |-> "ht!tp://bad"]),
      Element("a",      [href |-> "ht!tp://bad", id |-> "top"]),
      Element("a",      [id |-> "top"]),
      Element("link",   [href |-> "style.css"]),
      Element("img",    [src |-> "x.png"]),
      Element("img",    [src |-> "ht!tp://bad", id |-> "pic"]),
      Element("script", [src |-> "app.js"]),
      Element("h2",     [id |-> "intro"]) }

Documents(n) == UNION {[1..k -> Elements] : k \in 0..n}

InitScan == /\ document \in Documents(MaxElems)
            /\ order \in Perms(Len(document))
            /\ scanned = "none"
            /\ scan = NotRun
            /\ SlugIdle
            /\ IndexIdle

CallCollectLinks ==
    /\ scan' = collect_links(document, order)
    /\ scanned' = "links"
    /\ UNCHANGED <<document, order, slugVars, indexVars>>

CallCollectImgs ==
    /\ scan' = collect_imgs(document, order)
    /\ scanned' = "imgs"
    /\ UNCHANGED <<document, order, slugVars, indexVars>>

CallCollectFragments ==
    /\ scan' = collect_fragments(document, order)
    /\ scanned' = "fragments"
    /\ UNCHANGED <<document, order, slugVars, indexVars>>

NextScan == CallCollectLinks \/ CallCollectImgs \/ CallCollectFragments

SpecScan == InitScan /\ [][NextScan]_vars

\* ------------------------------------------------------------------------
\* Properties of the document scanner
\* ------------------------------------------------------------------------
Positions == 1..Len(document)

HasAttr(i, k) == k \in DOMAIN document[i].attrs

IsTag(i, name) == document[i].name = name

HrefOk(i) == HrefUrlParse(document[i].attrs.href).tag = "Ok"

SrcOk(i) == ImgUrlParse(document[i].attrs.src).tag = "Ok"

\* C4 as stated: when every href value of the document classifies, the set
\* returned by collect_links is the set of classified href values of every
\* element carrying an href attribute, whatever its tag.
C4_EveryHrefElement ==
    (scanned = "links" /\ \A i \in Positions : HasAttr(i, "href") => HrefOk(i)) =>
        scan = Ok({HrefUrlParse(document[i].attrs.href).val :
                      i \in {j \in Positions : HasAttr(j, "href")}})

\* C4 amended: when the href value of every <a> element classifies,
\* collect_links returns the set of classified href values of exactly the
\* <a> elements carrying an href attribute; an href on an element of another
\* tag is not collected.
C4_AnchorHrefs ==
    (scanned = "links" /\ \A i \in Positions : (IsTag(i, "a") /\ HasAttr(i, "href")) => HrefOk(i)) =>
        scan = Ok({HrefUrlParse(document[i].attrs.href).val :
                      i \in {j \in Positions : IsTag(j, "a") /\ HasAttr(j, "href")}})

C4_Witness ==
    /\ scanned = "links"
    /\ scan.tag = "Ok"
    /\ scan.val # {}
    /\ \E i \in Positions : IsTag(i, "link") /\ HasAttr(i, "href")
    /\ \E i \in Positions : IsTag(i, "a") /\ ~HasAttr(i, "href")

\* C5 as stated: when every src value of the document classifies, the set
\* returned by collect_imgs is the set of classified src values of every
\* element carrying a src attribute, whatever its tag.
C5_EverySrcElement ==
    (scanned = "imgs" /\ \A i \in Positions : HasAttr(i, "src") => SrcOk(i)) =>
        scan = Ok({ImgUrlParse(document[i].attrs.src).val :
                      i \in {j \in Positions : HasAttr(j, "src")}})

\* C5 amended: when the src value of every <img> element classifies,
\* collect_imgs returns the set of classified src values of exactly the
\* <img> elements carrying a src attribute; a src on an element of another
\* tag is not collected.
C5_ImgSrcs ==
    (scanned = "imgs" /\ \A i \in Positions : (IsTag(i, "img") /\ HasAttr(i, "src")) => SrcOk(i)) =>
        scan = Ok({ImgUrlParse(document[i].attrs.src).val :
                      i \in {j \in Positions : IsTag(j, "img") /\ HasAttr(j, "src")}})

C5_Witness ==
    /\ scanned = "imgs"
    /\ scan.tag = "Ok"
    /\ scan.val # {}
    /\ \E i \in Positions : IsTag(i, "script") /\ HasAttr(i, "src")

\* C6: collect_fragments never fails and returns exactly the set of "#" + v
\* for the id values v of the document's elements, of any tag; an id value
\* carried by several elements gives one entry.
C6_Fragments ==
    scanned = "fragments" =>
        scan = Ok({"#" \o document[i].attrs.id : i \in {j \in Positions : HasAttr(j, "id")}})

C6_Witness ==
    /\ scanned = "fragments"
    /\ \E i, j \in Positions :
          /\ i # j
          /\ HasAttr(i, "id") /\ HasAttr(j, "id")
          /\ document[i].name # document[j].name
          /\ document[i].attrs.id = document[j].attrs.id
    /\ "#intro" \in scan.val
    /\ Cardinality(scan.val) = 2

BadHref(i) == IsTag(i, "a") /\ HasAttr(i, "href") /\ ~HrefOk(i)

BadSrc(i) == IsTag(i, "img") /\ HasAttr(i, "src") /\ ~SrcOk(i)

\* the first k for which the k-th visited position is in bad
FirstVisited(bad) ==
    order[CHOOSE k \in Positions :
              order[k] \in bad /\ \A j \in Positions : order[j] \in bad => k <= j]

\* C7: when the href (src) value of a collected element fails to classify,
\* collect_links (collect_imgs) returns an error and no set, and the error
\* carries the serialized form of the offending element, the first one
\* visited whose value fails, together with the classifier's error for it.
C7_ScanError ==
    /\ (scanned = "links" /\ \E i \in Positions : BadHref(i)) =>
          LET i == FirstVisited({j \in Positions : BadHref(j)}) IN
          /\ scan.tag = "Err"
          /\ DOMAIN scan = {"tag", "err"}
          /\ scan.err.element = DebugElement(document[i])
          /\ scan.err.cause = HrefUrlParse(document[i].attrs.href).err
    /\ (scanned = "imgs" /\ \E i \in Positions : BadSrc(i)) =>
          LET i == FirstVisited({j \in Positions : BadSrc(j)}) IN
          /\ scan.tag = "Err"
          /\ DOMAIN scan = {"tag", "err"}
          /\ scan.err.element = DebugElement(document[i])
          /\ scan.err.cause = ImgUrlParse(document[i].attrs.src).err

\* a valid href is visited first, then two malformed ones, the later one
\* of the document before the earlier one; the call fails on the former
C7_Witness ==
    /\ scanned = "links"
    /\ scan.tag = "Err"
    /\ Len(document) = 3
    /\ IsTag(order[1], "a") /\ HasAttr(order[1], "href") /\ HrefOk(order[1])
    /\ BadHref(order[2]) /\ BadHref(order[3])
    /\ order[2] > order[3]
    /\ document[order[2]] # document[order[3]]
    /\ scan.err.element = DebugElement(document[order[2]])

\* C8: for a document whose scan succeeds, the set a collect_* function
\* returns is the same for every order in which the elements are visited:
\* it equals the set obtained in document order.
C8_OrderIndependent ==
    /\ (scanned = "links" /\ scan.tag = "Ok") =>
          scan = collect_links(document, Identity(Len(document)))
    /\ (scanned = "imgs" /\ scan.tag = "Ok") =>
          scan = collect_imgs(document, Identity(Len(document)))
    /\ (scanned = "fragments" /\ scan.tag = "Ok") =>
          scan = collect_fragments(document, Identity(Len(document)))

C8_Witness ==
    /\ scanned = "fragments"
    /\ scan.tag = "Ok"
    /\ Cardinality(scan.val) >= 2
    /\ order # Identity(Len(document))

\* ------------------------------------------------------------------------
\* The directory tree
\* ------------------------------------------------------------------------
\* A path: the directories from the site root, the file stem, the extension,
\* and whether the file name is valid UTF-8.
Path(dir, stem, ext, utf8) == [dir |-> dir, stem |-> stem, ext |-> ext, utf8 |-> utf8]

\* output_dir, and the directory static files are copied from
OutputDir == <<"out">>

StaticDir == <<"static">>

\* out/1.html, out/2.html, ...
HtmlPaths == {Path(OutputDir, i, "html", TRUE) : i \in 1..MaxFiles}

\* out/0\xFF.html: a file name in output_dir that is not valid UTF-8
RawNamePath == Path(OutputDir, 0, "html", FALSE)

\* a directory name that is not valid UTF-8, the bytes 0x21 0xFF; it sorts
\* before every other name of the tree
RawDir == "!\\xFF"

\* out/!\xFF/1.html: a UTF-8 file name below a directory whose name is not
RawDirPath == Path(OutputDir \o <<RawDir>>, 1, "html", TRUE)

\* out/1.txt
TxtPath == Path(OutputDir, 1, "txt", TRUE)

\* out/sub/2.html
NestedPath == Path(OutputDir \o <<"sub">>, 2, "html", TRUE)

\* static/sub/2.html
StaticPath == Path(StaticDir \o <<"sub">>, 2, "html", TRUE)

Paths == HtmlPaths \cup {RawNamePath, RawDirPath, TxtPath, NestedPath, StaticPath}

\* What a path names.
Absent == [kind |-> "absent"]

\* a directory, or a symlink to one: every call used follows symlinks
Dir == [kind |-> "dir"]

\* a regular file holding text
File(text) == [kind |-> "file", utf8 |-> TRUE, text |-> text]

\* a regular file whose bytes are not valid UTF-8
BinaryFile == [kind |-> "file", utf8 |-> FALSE]

\* File text: markup, a sequence of character data and start tags.
Text(t) == [text |-> t]

IsElement(token) == "name" \in DOMAIN token

\* Html::parse_document: lenient, never fails.  The element nodes of the
\* tree in document order; the html, head and body elements the parser adds
\* carry no attribute and are left out.
ParseDocument(content) == SelectSeq(content, IsElement)

IoError(kind, message) == [io |-> kind, message |-> message]

\* std::fs::read_to_string
read_to_string(tree, path) ==
    LET entry == tree[path] IN
    CASE entry.kind = "file" /\ entry.utf8  -> Ok(entry.text)
      [] entry.kind = "file" /\ ~entry.utf8 ->
            Err(IoError("InvalidData", "stream did not contain valid UTF-8"))
      [] entry.kind = "dir"                 ->
            Err(IoError("IsADirectory", "Is a directory"))
      [] OTHER                              ->
            Err(IoError("NotFound", "No such file or directory"))

\* Path::is_file (follows symlinks)
is_file(tree, path) == tree[path].kind = "file"

\* A glob pattern <base>/**/*.<ext>
Pattern(base, ext) == [base |-> base, ext |-> ext]

\* base.join(pattern)
JoinPattern(base, pattern) == Pattern(base \o pattern.base, pattern.ext)

IsPrefix(prefix, dir) ==
    Len(prefix) <= Len(dir) /\ SubSeq(dir, 1, Len(prefix)) = prefix

\* ** descends into every directory, whatever its name; *.<ext> is matched
\* against file_name().to_str(), so an entry whose own name is not valid
\* UTF-8 is passed over
MatchesPattern(pattern, path) ==
    /\ IsPrefix(pattern.base, path.dir)
    /\ path.utf8
    /\ path.ext = pattern.ext

\* the paths glob finds: every existing directory entry whose name matches,
\* whatever it names
Matched(tree, pattern) ==
    {path \in DOMAIN tree : tree[path].kind # "absent" /\ MatchesPattern(pattern, path)}

\* The place of a name among the entries of the directory walked: the
\* directory !\xFF sorts before the names made of a stem, the directory sub
\* after them.
Rank(path) ==
    IF Len(path.dir) = 1 THEN path.stem
    ELSE IF path.dir[2] = RawDir THEN -1
    ELSE MaxFiles + 1

\* glob walks a directory in the byte order of the names, depth first
Before(p, q) ==
    \/ Rank(p) < Rank(q)
    \/ Rank(p) = Rank(q) /\ p.stem <= q.stem

RECURSIVE Sorted(_)
Sorted(paths) ==
    IF paths = {} THEN <<>>
    ELSE LET first == CHOOSE path \in paths : \A other \in paths : Before(path, other)
         IN  <<first>> \o Sorted(paths \ {first})

\* glob(pattern).unwrap().flatten(): the matches, in the order of the walk
glob(tree, pattern) == Sorted(Matched(tree, pattern))

\* Utf8PathBuf::from_path_buf / Utf8Path::from_path: every component of the
\* path must be valid UTF-8
from_path_buf(path) ==
    IF path.utf8 /\ \A i \in 1..Len(path.dir) : path.dir[i] # RawDir
    THEN Ok(path)
    ELSE Err(path)

Panic(message) == [tag |-> "Panic", message |-> message]

\* ()
Unit == <<>>

\* the tree a call leaves and the value it returns
Outcome(tree, res) == [tree |-> tree, res |-> res]

\* ------------------------------------------------------------------------
\* write_to_file / copy_file / copy_files_keep_dirs / copy_files_to
\* ------------------------------------------------------------------------
\* fs::write: creates or truncates the file
write(tree, file, content) ==
    IF tree[file].kind \in {"absent", "file"}
    THEN Outcome([tree EXCEPT ![file] = File(content)], Ok(Unit))
    ELSE Outcome(tree, Err(IoError("IsADirectory", "Is a directory")))

\* the directories of the model's paths can always be created
write_to_file(tree, file, content) == write(tree, file, content)

\* fs::copy: the source must be a regular file.  The destination is opened
\* with truncate before the source is read, so a file copied onto itself is
\* left empty.
copy(tree, from, to) ==
    CASE tree[from].kind = "absent" ->
            Outcome(tree, Err(IoError("NotFound", "No such file or directory")))
      [] tree[from].kind = "dir" ->
            Outcome(tree, Err(IoError("InvalidInput", "the source path is not a regular file")))
      [] tree[to].kind = "dir" ->
            Outcome(tree, Err(IoError("IsADirectory", "Is a directory")))
      [] to = from ->
            Outcome([tree EXCEPT ![to] = File(<<>>)], Ok(Unit))
      [] OTHER ->
            Outcome([tree EXCEPT ![to] = tree[from]], Ok(Unit))

copy_file(tree, from, to) == copy(tree, from, to)

\* path.strip_prefix(base)
strip_prefix(path, base) ==
    IF IsPrefix(base, path.dir)
    THEN Ok([path EXCEPT !.dir = SubSeq(path.dir, Len(base) + 1, Len(path.dir))])
    ELSE Err([error |-> "StripPrefixError"])

\* target_dir.join(rel_path)
JoinPath(dir, rel) == [rel EXCEPT !.dir = dir \o rel.dir]

\* path.file_name()
file_name(path) == [path EXCEPT !.dir = <<>>]

\* the for loop of copy_files_keep_dirs over the matches
RECURSIVE KeepDirsLoop(_, _, _, _)
KeepDirsLoop(tree, paths, base, target_dir) ==
    IF paths = <<>> THEN Outcome(tree, Ok(Unit))
    ELSE LET path == from_path_buf(Head(paths)) IN
         IF path.tag = "Err" THEN Outcome(tree, Panic("Non-utf8 path"))
         ELSE IF ~is_file(tree, path.val)
         THEN KeepDirsLoop(tree, Tail(paths), base, target_dir)
         ELSE LET rel_path == strip_prefix(path.val, base) IN
              IF rel_path.tag = "Err" THEN Outcome(tree, rel_path)
              ELSE LET copied == copy_file(tree, path.val, JoinPath(target_dir, rel_path.val)) IN
                   IF copied.res.tag = "Err" THEN copied
                   ELSE KeepDirsLoop(copied.tree, Tail(paths), base, target_dir)

copy_files_keep_dirs(tree, pattern, base, target_dir) ==
    KeepDirsLoop(tree, glob(tree, JoinPattern(base, pattern)), base, target_dir)

\* the for loop of copy_files_to over the matches
RECURSIVE CopyToLoop(_, _, _)
CopyToLoop(tree, paths, target_dir) ==
    IF paths = <<>> THEN Outcome(tree, Ok(Unit))
    ELSE LET path == from_path_buf(Head(paths)) IN
         IF path.tag = "Err" THEN Outcome(tree, Panic("Non-utf8 path"))
         ELSE IF ~is_file(tree, path.val)
         THEN CopyToLoop(tree, Tail(paths), target_dir)
         ELSE LET copied == copy_file(tree, path.val, JoinPath(target_dir, file_name(path.val))) IN
              IF copied.res.tag = "Err" THEN copied
              ELSE CopyToLoop(copied.tree, Tail(paths), target_dir)

copy_files_to(tree, pattern, target_dir) ==
    CopyToLoop(tree, glob(tree, pattern), target_dir)

\* ------------------------------------------------------------------------
\* parse_html_files
\* ------------------------------------------------------------------------
FileError(path, err) ==
    [context |-> "Error parsing file", file |-> path, cause |-> err]

ParsedFile(path, html, content, hrefs, images, frags) ==
    [path |-> path, html |-> html, content |-> content,
     links |-> hrefs, imgs |-> images, fragments |-> frags]

\* HashMap::insert
Insert(map, key, value) ==
    [k \in DOMAIN map \cup {key} |-> IF k = key THEN value ELSE map[k]]

\* the closure handed to map(): one discovered path -> Result<(key, record)>
ParseFile(tree, path) ==
    LET content == read_to_string(tree, path) IN
    IF content.tag = "Err" THEN Err(content.err)
    ELSE
    LET html == ParseDocument(content.val)
        utf8path == from_path_buf(path)
    IN
    IF utf8path.tag = "Err" THEN Panic("called Result::unwrap() on an Err value")
    ELSE
    LET hrefs == collect_links(html, Identity(Len(html))) IN
    IF hrefs.tag = "Err" THEN Err(FileError(utf8path.val, hrefs.err))
    ELSE
    LET images == collect_imgs(html, Identity(Len(html))) IN
    IF images.tag = "Err" THEN Err(FileError(utf8path.val, images.err))
    ELSE
    LET frags == collect_fragments(html, Identity(Len(html))) IN
    IF frags.tag = "Err" THEN Err(FileError(utf8path.val, frags.err))
    ELSE Ok(<<utf8path.val,
              ParsedFile(utf8path.val, html, content.val, hrefs.val, images.val, frags.val)>>)

\* variant: a file that fails is left out of the index
RECURSIVE CollectBestEffort(_, _, _)
CollectBestEffort(tree, paths, map) ==
    IF paths = <<>> THEN Ok(map)
    ELSE LET item == ParseFile(tree, Head(paths)) IN
         IF item.tag = "Ok"
         THEN CollectBestEffort(tree, Tail(paths), Insert(map, item.val[1], item.val[2]))
         ELSE CollectBestEffort(tree, Tail(paths), map)

\* variant: a match that is not a regular file is passed over
RECURSIVE CollectFilesOnly(_, _, _)
CollectFilesOnly(tree, paths, map) ==
    IF paths = <<>> THEN Ok(map)
    ELSE IF ~is_file(tree, Head(paths)) THEN CollectFilesOnly(tree, Tail(paths), map)
    ELSE LET item == ParseFile(tree, Head(paths)) IN
         IF item.tag = "Ok"
         THEN CollectFilesOnly(tree, Tail(paths), Insert(map, item.val[1], item.val[2]))
         ELSE item

\* collect::<Result<HashMap<_, _>>>(): stops at the first item that is not Ok
RECURSIVE Collect(_, _, _)
Collect(tree, paths, map) ==
    IF paths = <<>> THEN Ok(map)
    ELSE LET item == ParseFile(tree, Head(paths)) IN
         IF item.tag = "Ok"
         THEN Collect(tree, Tail(paths), Insert(map, item.val[1], item.val[2]))
         ELSE item

\* the pattern format!("{}/**/*.html", output_dir)
HtmlPattern(output_dir) == Pattern(output_dir, "html")

parse_html_files(tree, output_dir) ==
    Collect(tree, glob(tree, HtmlPattern(output_dir)), <<>>)

\* ------------------------------------------------------------------------
\* Specification of the tree functions
\* ------------------------------------------------------------------------
Anchor(href) == Element("a", [href |-> href])

GoodPage ==
    <<Text("Hello"), Anchor("./b.html"), Element("link", [href |-> "style.css"]),
      Element("h2", [id |-> "intro"]), Element("img", [src |-> "x.png"])>>

BadHrefPage == <<Anchor("b.html"), Anchor("ht!tp://bad")>>

BadSrcPage == <<Element("img", [src |-> "ht!tp://bad", id |-> "pic"])>>

Contents == {GoodPage, BadHrefPage, BadSrcPage}

HtmlEntries == {Absent, Dir, BinaryFile} \cup {File(c) : c \in Contents}

RawNameEntries == {Absent, File(GoodPage)}

RawDirEntries == {Absent, File(GoodPage)}

\* out/1.txt is always there: a page that would not scan, which no pattern
\* *.html matches
TxtEntries == {File(BadHrefPage)}

NestedEntries == {Absent, File(GoodPage)}

StaticEntries == {Absent, Dir, File(GoodPage)}

Trees ==
    {tree \in [Paths -> HtmlEntries] :
        /\ tree[RawNamePath] \in RawNameEntries
        /\ tree[RawDirPath] \in RawDirEntries
        /\ tree[TxtPath] \in TxtEntries
        /\ tree[NestedPath] \in NestedEntries
        /\ tree[StaticPath] \in StaticEntries}

InitIndex == /\ fs \in Trees
             /\ written = NotRun
             /\ result = NotRun
             /\ SlugIdle
             /\ ScanIdle

\* The site is written and copied into place before it is indexed: the
\* index is built once from the tree as it then stands.
Building == result = NotRun

CallWriteToFile ==
    /\ Building
    /\ \E file \in HtmlPaths, content \in Contents :
          LET done == write_to_file(fs, file, content) IN
          /\ fs' = done.tree
          /\ written' = done.res
    /\ UNCHANGED <<result, slugVars, scanVars>>

CallCopyFile ==
    /\ Building
    /\ \E from \in {TxtPath, StaticPath, NestedPath, Path(OutputDir, 1, "html", TRUE)},
          to \in HtmlPaths :
          LET done == copy_file(fs, from, to) IN
          /\ fs' = done.tree
          /\ written' = done.res
    /\ UNCHANGED <<result, slugVars, scanVars>>

\* copy_files_keep_dirs("**/*.html", "static", output_dir)
CallCopyFilesKeepDirs ==
    /\ Building
    /\ LET done == copy_files_keep_dirs(fs, Pattern(<<>>, "html"), StaticDir, OutputDir) IN
       /\ fs' = done.tree
       /\ written' = done.res
    /\ UNCHANGED <<result, slugVars, scanVars>>

\* copy_files_to("static/**/*.html", output_dir)
CallCopyFilesTo ==
    /\ Building
    /\ LET done == copy_files_to(fs, Pattern(StaticDir, "html"), OutputDir) IN
       /\ fs' = done.tree
       /\ written' = done.res
    /\ UNCHANGED <<result, slugVars, scanVars>>

CallParseHtmlFiles == /\ result' = parse_html_files(fs, OutputDir)
                      /\ UNCHANGED <<fs, written, slugVars, scanVars>>

NextIndex ==
    \/ CallWriteToFile
    \/ CallCopyFile
    \/ CallCopyFilesKeepDirs
    \/ CallCopyFilesTo
    \/ CallParseHtmlFiles

SpecIndex == InitIndex /\ [][NextIndex]_vars

\* ------------------------------------------------------------------------
\* Properties of the tree indexer
\* ------------------------------------------------------------------------
\* the paths the call's glob yields
Discovered == Matched(fs, HtmlPattern(OutputDir))

Readable(path) == fs[path].kind = "file" /\ fs[path].utf8

Html(path) == ParseDocument(fs[path].text)

\* the file is read, and the unwrap of line 132 then panics on its path
Panics(path) == Readable(path) /\ from_path_buf(path).tag = "Err"

\* the file is read, its path converted, and one of the three collect_*
\* functions fails on its document
ScanFails(path) ==
    /\ Readable(path)
    /\ from_path_buf(path).tag = "Ok"
    /\ \/ collect_links(Html(path), Identity(Len(Html(path)))).tag = "Err"
       \/ collect_imgs(Html(path), Identity(Len(Html(path)))).tag = "Err"
       \/ collect_fragments(Html(path), Identity(Len(Html(path)))).tag = "Err"

ScanSucceeds(path) ==
    /\ Readable(path)
    /\ from_path_buf(path).tag = "Ok"
    /\ ~ScanFails(path)

\* the call does not panic on path or on a path walked before it
NoPanicBefore(path) ==
    \A other \in Discovered : Before(other, path) => ~Panics(other)

Called == result # NotRun

\* C1: an index is returned only if every discovered file was scanned
\* successfully; if a discovered file fails its scan, no index and no record
\* of any file is returned, and the call returns an error: the one case in
\* which it does not return is a panic on a path walked before that file,
\* met before any scan has failed.
C1_AllOrNothing ==
    Called =>
        /\ result.tag = "Ok" => \A path \in Discovered : ScanSucceeds(path)
        /\ (\E path \in Discovered : ScanFails(path)) => "val" \notin DOMAIN result
        /\ (\E path \in Discovered : ScanFails(path) /\ NoPanicBefore(path)) =>
              result.tag = "Err"

\* two valid files and one with an unclassifiable href
C1_Witness ==
    /\ Called
    /\ result.tag = "Err"
    /\ \E p1, p2, p3 \in Discovered :
          /\ p1 # p2
          /\ ScanSucceeds(p1) /\ ScanSucceeds(p2)
          /\ Before(p1, p3)
          /\ ScanFails(p3)

\* what goes wrong with a discovered path, if anything does
Fails(path) == ~Readable(path) \/ ScanFails(path) \/ Panics(path)

FirstFailing ==
    CHOOSE path \in Discovered :
        Fails(path) /\ \A other \in Discovered : Fails(other) => Before(path, other)

\* every discovered path is a regular file whose path is valid UTF-8
PlainFiles ==
    \A path \in Discovered : is_file(fs, path) /\ from_path_buf(path).tag = "Ok"

\* C2: whenever parse_html_files returns an error, the error carries the
\* path of the first file, in discovery order, whose processing failed,
\* together with the cause, however the processing failed.  Stated for the
\* trees in which every match is a regular file with a UTF-8 path.
C2_ErrorNamesFile ==
    (Called /\ result.tag = "Err" /\ PlainFiles) =>
        /\ "file" \in DOMAIN result.err
        /\ "cause" \in DOMAIN result.err
        /\ result.err.file = FirstFailing

\* C3: a matched path that is not a regular file is skipped: when every
\* matched regular file scans, the call succeeds and indexes exactly the
\* matched regular files.
C3_NonFilesSkipped ==
    (Called /\ \A path \in Discovered : is_file(fs, path) => ScanSucceeds(path)) =>
        /\ result.tag = "Ok"
        /\ DOMAIN result.val = {path \in Discovered : is_file(fs, path)}

\* C10: whenever parse_html_files succeeds, the key set of the index is the
\* set of paths the glob of <root>/**/*.html yields, and every key is the
\* path field of the record stored under it.
C10_OneEntryPerFile ==
    (Called /\ result.tag = "Ok") =>
        /\ DOMAIN result.val = Discovered
        /\ \A key \in DOMAIN result.val : result.val[key].path = key

\* two files are indexed; a file whose name is not valid UTF-8 and a .txt
\* file stand beside them and have no entry
C10_Witness ==
    /\ Called
    /\ result.tag = "Ok"
    /\ Cardinality(DOMAIN result.val) >= 2
    /\ fs[TxtPath] # Absent
    /\ fs[RawNamePath] # Absent
    /\ RawNamePath \notin DOMAIN result.val

\* ------------------------------------------------------------------------
\* Specification of the text transforms
\* ------------------------------------------------------------------------
InitSlug == /\ input \in Strings(MaxLen)
            /\ output = <<>>
            /\ called = "none"
            /\ ScanIdle
            /\ IndexIdle

CallToId == /\ output' = to_id(input)
            /\ called' = "to_id"
            /\ UNCHANGED <<input, scanVars, indexVars>>

CallSlugify == /\ output' = slugify(input)
               /\ called' = "slugify"
               /\ UNCHANGED <<input, scanVars, indexVars>>

NextSlug == CallToId \/ CallSlugify

SpecSlug == InitSlug /\ [][NextSlug]_vars

\* C9: for every input, the string returned by to_id and by slugify neither
\* begins nor ends with '-' or '_'.
Separators == {Dash, Underscore}

C9_Trimmed ==
    (called # "none" /\ output # <<>>) =>
        /\ Head(output) \notin Separators
        /\ output[Len(output)] \notin Separators

\* test_to_id
TestsToId ==
    \* to_id("One Two") = "one-two"
    /\ to_id(<<79, 110, 101, 32, 84, 119, 111>>)
         = <<111, 110, 101, 45, 116, 119, 111>>
    \* to_id("1-2_3?4#5(6) 7!8&9") = "1-2_3456-789"
    /\ to_id(<<49, 45, 50, 95, 51, 63, 52, 35, 53, 40, 54, 41, 32, 55, 33, 56, 38, 57>>)
         = <<49, 45, 50, 95, 51, 52, 53, 54, 45, 55, 56, 57>>
    \* to_id("Mods & Symbols") = "mods-symbols"
    /\ to_id(<<77, 111, 100, 115, 32, 38, 32, 83, 121, 109, 98, 111, 108, 115>>)
         = <<109, 111, 100, 115, 45, 115, 121, 109, 98, 111, 108, 115>>
    \* to_id("()one---two???") = "one-two"
    /\ to_id(<<40, 41, 111, 110, 101, 45, 45, 45, 116, 119, 111, 63, 63, 63>>)
         = <<111, 110, 101, 45, 116, 119, 111>>
    \* to_id("-trimmed--") = "trimmed"
    /\ to_id(<<45, 116, 114, 105, 109, 109, 101, 100, 45, 45>>)
         = <<116, 114, 105, 109, 109, 101, 100>>
    \* to_id("_trimmed__") = "trimmed"
    /\ to_id(<<95, 116, 114, 105, 109, 109, 101, 100, 95, 95>>)
         = <<116, 114, 105, 109, 109, 101, 100>>

\* test_slugify
TestsSlugify ==
    \* slugify("One Two") = "one_two"
    /\ slugify(<<79, 110, 101, 32, 84, 119, 111>>)
         = <<111, 110, 101, 95, 116, 119, 111>>
    \* slugify("1-2_3?4#5(6) 7!8&9") = "1-2_3456_789"
    /\ slugify(<<49, 45, 50, 95, 51, 63, 52, 35, 53, 40, 54, 41, 32, 55, 33, 56, 38, 57>>)
         = <<49, 45, 50, 95, 51, 52, 53, 54, 95, 55, 56, 57>>
    \* slugify("Mods & Symbols") = "mods_symbols"
    /\ slugify(<<77, 111, 100, 115, 32, 38, 32, 83, 121, 109, 98, 111, 108, 115>>)
         = <<109, 111, 100, 115, 95, 115, 121, 109, 98, 111, 108, 115>>
    \* slugify("()one___two???") = "one_two"
    /\ slugify(<<40, 41, 111, 110, 101, 95, 95, 95, 116, 119, 111, 63, 63, 63>>)
         = <<111, 110, 101, 95, 116, 119, 111>>
    \* slugify("-trimmed--") = "trimmed"
    /\ slugify(<<45, 116, 114, 105, 109, 109, 101, 100, 45, 45>>)
         = <<116, 114, 105, 109, 109, 101, 100>>
    \* slugify("_trimmed__") = "trimmed"
    /\ slugify(<<95, 116, 114, 105, 109, 109, 101, 100, 95, 95>>)
         = <<116, 114, 105, 109, 109, 101, 100>>

SourceTestsPass == TestsToId /\ TestsSlugify
====
